---- MODULE Spec2Model ----
(***************************************************************************)
(* Model of LoadTesting/loadtesting.js, a k6 load-test script.             *)
(*                                                                         *)
(* k6 runs the script's init code once in every JavaScript runtime it      *)
(* creates: one per virtual user (VU) and one more in which handleSummary  *)
(* is called at the end of the test.  Module-level `let rawData` is        *)
(* therefore one object per runtime; only the k6 metrics (Rate, Trend,     *)
(* Counter, Gauge and the built-in http_* metrics) are collected by the    *)
(* engine across all VUs.  Times are in milliseconds.                      *)
(***************************************************************************)
EXTENDS Integers, Sequences, FiniteSets, TLC

\* ---------------------------------------------------------------- bounds
\* Number of iterations of the default function the scheduler starts in all.
MaxIters == 2

\* The virtual users (__VU) the ramp driver runs.
Workers == {1, 2}

\* The runtime in which k6 calls handleSummary.
SummaryRuntime == 0

Runtimes == Workers \cup {SummaryRuntime}

\* ----------------------------------------------------------- configuration
MAX_RETRIES == 2

\* REQUEST_TIMEOUT '20s', in milliseconds
REQUEST_TIMEOUT == 20000

\* A header the response does not carry (JavaScript undefined).
Undefined == "undefined"

\* The responses the endpoint may give to one http.get, each with the time
\* it takes.  status 0 is k6's response for a transport failure or timeout.
Responses ==
  { [status |-> 200, XBackendServer |-> "node-7", XServer |-> Undefined,
     Server |-> "nginx", duration |-> 50],
    [status |-> 200, XBackendServer |-> Undefined, XServer |-> "",
     Server |-> Undefined, duration |-> 5000],
    [status |-> 200, XBackendServer |-> "error", XServer |-> "edge-1",
     Server |-> Undefined, duration |-> 1000],
    [status |-> 500, XBackendServer |-> "node-7", XServer |-> Undefined,
     Server |-> Undefined, duration |-> 100],
    [status |-> 0, XBackendServer |-> Undefined, XServer |-> Undefined,
     Server |-> Undefined, duration |-> REQUEST_TIMEOUT] }

\* thinkTime = Math.random() * (MAX_SLEEP - MIN_SLEEP) + MIN_SLEEP, in ms
ThinkTimes == {1000}

\* browseTime = Math.random() * 1.5 + 0.5, in ms
BrowseTimes == {500}

\* ------------------------------------------------------------ pure helpers
RECURSIVE SumOver(_, _)
\* the sum of f[x] over the finite set S
SumOver(f, S) ==
  IF S = {} THEN 0
  ELSE LET x == CHOOSE y \in S : TRUE IN f[x] + SumOver(f, S \ {x})

Min(a, b) == IF a < b THEN a ELSE b

RECURSIVE Pow2(_)
Pow2(n) == IF n <= 0 THEN 1 ELSE 2 * Pow2(n - 1)

\* JavaScript truthiness of a header lookup: undefined and '' are falsy.
Truthy(v) == v # Undefined /\ v # ""

\* check(response, {'status is 200', 'response received'}): all checks pass
Check(response) == response.status = 200 /\ response.status # 0

\* The chain with X-Server asked first.
BackendOfServerFirst(response) ==
  IF Truthy(response.XServer) THEN response.XServer
  ELSE IF Truthy(response.XBackendServer) THEN response.XBackendServer
  ELSE IF Truthy(response.Server) THEN response.Server
  ELSE "unknown"

\* headers['X-Backend-Server'] || headers['X-Server'] || headers['Server'] || 'unknown'
BackendOf(response) ==
  IF Truthy(response.XBackendServer) THEN response.XBackendServer
  ELSE IF Truthy(response.XServer) THEN response.XServer
  ELSE IF Truthy(response.Server) THEN response.Server
  ELSE "unknown"

\* The exponent written retryCount: the first wait is already 2000.
BackoffTimeDoubled(retryCount) == Min(1000 * Pow2(retryCount), 2000)

\* Math.min(1000 * Math.pow(2, retryCount - 1), 2000)
BackoffTime(retryCount) == Min(1000 * Pow2(retryCount - 1), 2000)

\* The loop test written with < : the last allowed attempt is never made.
LoopContinuesStrict(retryCount) == retryCount < MAX_RETRIES

\* while (retryCount <= TEST_CONFIG.MAX_RETRIES)
LoopContinues(retryCount) == retryCount <= MAX_RETRIES

\* The comparisons written with <= : a boundary value falls in the lower bin.
getResponseTimeBucketInclusive(responseTime) ==
  IF responseTime <= 100 THEN "0-100ms"
  ELSE IF responseTime <= 200 THEN "100-200ms"
  ELSE IF responseTime <= 500 THEN "200-500ms"
  ELSE IF responseTime <= 1000 THEN "500-1000ms"
  ELSE IF responseTime <= 2000 THEN "1000-2000ms"
  ELSE IF responseTime <= 5000 THEN "2000-5000ms"
  ELSE "5000ms+"

\* lines 182-190
getResponseTimeBucket(responseTime) ==
  IF responseTime < 100 THEN "0-100ms"
  ELSE IF responseTime < 200 THEN "100-200ms"
  ELSE IF responseTime < 500 THEN "200-500ms"
  ELSE IF responseTime < 1000 THEN "500-1000ms"
  ELSE IF responseTime < 2000 THEN "1000-2000ms"
  ELSE IF responseTime < 5000 THEN "2000-5000ms"
  ELSE "5000ms+"

Buckets == {"0-100ms", "100-200ms", "200-500ms", "500-1000ms",
            "1000-2000ms", "2000-5000ms", "5000ms+"}

\* The tag values a backend can take in this model.
Backends == {BackendOf(r) : r \in Responses} \cup {"error"}


\* The backoff sleep without its guard: it also follows the last failed attempt.
ShouldBackoffAlways(retryCount) == TRUE

\* if (retryCount <= TEST_CONFIG.MAX_RETRIES) { ... sleep(backoffTime / 1000) }
ShouldBackoff(retryCount) == retryCount <= MAX_RETRIES

\* k6's default gracefulRampDown / gracefulStop for `stages` (the script sets
\* neither): an iteration still running this long after its VU was retired is
\* interrupted.
GracefulRampDown == 30000

\* ------------------------------------------------------------------ state
VARIABLES
  endpoint,          \* the response the endpoint gives in this run when it fails
  pc,                \* per VU: "idle", "think", "attempt", "backoff", "browse", "stopped"
  iter,              \* per VU: __ITER
  retiring,          \* per VU: the ramp driver has retired the VU
  retiredAt,         \* per VU: when it was retired, while its iteration still runs
  now,               \* per VU: Date.now() when its current blocking call began
  sleeping,          \* per VU: the length of its current sleep, 0 in an http.get
  retryCount,        \* per VU: makeRequest's retryCount
  startTime,         \* per VU: makeRequest's startTime
  requestStartTime,  \* per VU: makeRequest's requestStartTime
  result,            \* per VU: what the last makeRequest returned
  rawData,           \* per runtime: the module-level rawData object
  metrics,           \* the k6 metrics, collected over all VUs
  report,            \* what generateEnhancedHtmlReport computed
  itersStarted,      \* iterations the scheduler has started
  log,               \* per VU: the attempts and sleeps of the current makeRequest
  started,           \* per VU: makeRequest calls begun
  returned,          \* per VU: makeRequest calls that returned
  plusCalls,         \* per VU: activeUsers.add(1) calls
  minusCalls,        \* per VU: activeUsers.add(-1) calls
  retiredInFlight,   \* per VU: it was retired inside a makeRequest call
  summary,           \* what handleSummary computed and printed
  probe              \* a pure function of the script applied to one input

vars == <<endpoint, pc, iter, retiring, retiredAt, now, sleeping, retryCount, startTime,
          requestStartTime, result, rawData, metrics, report, itersStarted,
          log, started, returned, plusCalls, minusCalls, retiredInFlight,
          summary, probe>>

NoResult == [none |-> TRUE]
NoReport == [none |-> TRUE]
NoSummary == [none |-> TRUE]
NoProbe == [fn |-> "none"]

\* let rawData = { requests: [], responseTimes: [], ... }
EmptyRawData ==
  [requests |-> <<>>, responseTimes |-> <<>>, backends |-> <<>>,
   retries |-> <<>>, timestamps |-> <<>>, userSessions |-> <<>>]

\* The durations an http.get can take in this model.
Durations == {r.duration : r \in Responses}

\* A Rate metric: samples added, and how many of them were non-zero.
EmptyRate == [count |-> 0, nonzero |-> 0]

RateAdd(rate, nonzero) ==
  [count |-> rate.count + 1,
   nonzero |-> rate.nonzero + (IF nonzero THEN 1 ELSE 0)]

InitMetrics ==
  [errors |-> EmptyRate,
   response_times |-> [count |-> 0, sum |-> 0],
   backend_requests |-> [b \in Backends |-> 0],
   retries |-> 0,
   active_users |-> 0,
   rps |-> EmptyRate,
   response_time_buckets |-> [b \in Buckets |-> 0],
   http_reqs |-> 0,
   http_req_failed |-> EmptyRate,
   http_req_duration |-> [d \in Durations |-> 0]]

\* What the endpoint may answer to an http.get in this run: any of the
\* successful responses, or the run's failing response.
Answers == {r \in Responses : Check(r) \/ r = endpoint}

Init ==
  /\ endpoint \in {r \in Responses : ~Check(r)}
  /\ pc = [w \in Workers |-> "idle"]
  /\ iter = [w \in Workers |-> 0]
  /\ retiring = [w \in Workers |-> FALSE]
  /\ retiredAt = [w \in Workers |-> 0]
  /\ now = [w \in Workers |-> 0]
  /\ sleeping = [w \in Workers |-> 0]
  /\ retryCount = [w \in Workers |-> 0]
  /\ startTime = [w \in Workers |-> 0]
  /\ requestStartTime = [w \in Workers |-> 0]
  /\ result = [w \in Workers |-> NoResult]
  /\ rawData = [r \in Runtimes |-> EmptyRawData]
  /\ metrics = InitMetrics
  /\ report = NoReport
  /\ itersStarted = 0
  /\ log = [w \in Workers |-> <<>>]
  /\ started = [w \in Workers |-> 0]
  /\ returned = [w \in Workers |-> 0]
  /\ plusCalls = [w \in Workers |-> 0]
  /\ minusCalls = [w \in Workers |-> 0]
  /\ retiredInFlight = [w \in Workers |-> FALSE]
  /\ summary = NoSummary
  /\ probe = NoProbe

\* ------------------------------------------------------------ makeRequest
\* What k6 itself records for one http.get: http_reqs, http_req_failed (a
\* status outside 200..399 counts as failed), http_req_duration (kept as the
\* number of requests of each duration), and the script's rps.add(1).
HttpGetMetrics(m, response) ==
  [m EXCEPT !.http_reqs = @ + 1,
            !.http_req_duration[response.duration] = @ + 1,
            !.http_req_failed =
               RateAdd(@, ~(response.status >= 200 /\ response.status <= 399)),
            !.rps = RateAdd(@, TRUE)]

\* requestData of the success path
RequestData(w, response, responseTime) ==
  [timestamp |-> requestStartTime[w], userId |-> w, requestId |-> iter[w],
   backend |-> BackendOf(response), responseTime |-> responseTime,
   status |-> response.status, retries |-> retryCount[w], success |-> TRUE]

\* The failed record with retries written retryCount: one more than the
\* retries the returned outcome states.
FailedRequestDataOffByOne(w, rc, responseTime) ==
  [timestamp |-> requestStartTime[w], userId |-> w, requestId |-> iter[w],
   backend |-> "error", responseTime |-> responseTime,
   status |-> "failed", retries |-> rc, success |-> FALSE]

\* failedRequestData; status is the string 'failed'
FailedRequestData(w, rc, responseTime) ==
  [timestamp |-> requestStartTime[w], userId |-> w, requestId |-> iter[w],
   backend |-> "error", responseTime |-> responseTime,
   status |-> "failed", retries |-> rc - 1, success |-> FALSE]

\* the five rawData.*.push calls of either path
PushRawData(rd, data) ==
  [rd EXCEPT !.requests = Append(@, data),
             !.responseTimes = Append(@, data.responseTime),
             !.backends = Append(@, data.backend),
             !.retries = Append(@, data.retries),
             !.timestamps = Append(@, data.timestamp)]

\* rawData after the success path
RecordSuccess(rd, data) == PushRawData(rd, data)

\* The failure path without its push calls: a failed request leaves no record.
RecordFailureDropped(rd, data) == rd

\* rawData after the failure path
RecordFailure(rd, data) == PushRawData(rd, data)

\* Counters that are set to 1 where they should grow by 1.
SuccessMetricsOverwriting(m, backend, responseTime) ==
  [m EXCEPT !.backend_requests[backend] = 1,
            !.response_times = [count |-> @.count + 1, sum |-> @.sum + responseTime],
            !.response_time_buckets[getResponseTimeBucket(responseTime)] = 1]

\* backendDistribution.add, responseTimeTrend.add, responseTimeBuckets.add
SuccessMetrics(m, backend, responseTime) ==
  [m EXCEPT !.backend_requests[backend] = @ + 1,
            !.response_times = [count |-> @.count + 1, sum |-> @.sum + responseTime],
            !.response_time_buckets[getResponseTimeBucket(responseTime)] = @ + 1]

\* errorRate.add(1), the only metric call of the failure path
FailureMetrics(m) == [m EXCEPT !.errors = RateAdd(@, TRUE)]

\* the object the success path returns
SuccessResult(response, responseTime, rc) ==
  [success |-> TRUE, responseTime |-> responseTime,
   backend |-> BackendOf(response), retries |-> rc, status |-> response.status]

\* the object the failure path returns
FailedResult(responseTime) ==
  [success |-> FALSE, responseTime |-> responseTime, backend |-> "error",
   retries |-> MAX_RETRIES, status |-> "failed"]

AttemptEvent(response) == [ev |-> "attempt", val |-> response.status]
SleepEvent(ms) == [ev |-> "sleep", val |-> ms]

\* Back in the default function after makeRequest returned at time t:
\* sleep(browseTime).
Browse(w, t) ==
  \E browseTime \in BrowseTimes :
    /\ pc' = [pc EXCEPT ![w] = "browse"]
    /\ now' = [now EXCEPT ![w] = t]
    /\ sleeping' = [sleeping EXCEPT ![w] = browseTime]

\* Lines 154-179: the loop ended without a success, at time t with retryCount rc.
FailedExit(w, t, rc, m, lg) ==
  LET responseTime == t - startTime[w] IN
  /\ rawData' = [rawData EXCEPT ![w] = RecordFailure(@, FailedRequestData(w, rc, responseTime))]
  /\ metrics' = FailureMetrics(m)
  /\ result' = [result EXCEPT ![w] = FailedResult(responseTime)]
  /\ returned' = [returned EXCEPT ![w] = @ + 1]
  /\ log' = [log EXCEPT ![w] = lg]
  /\ Browse(w, t)
  /\ UNCHANGED startTime


\* ------------------------------------------------------------- the actions
Running(w) == pc[w] \in {"think", "attempt", "backoff", "browse"}

\* The time a retired VU's iteration is interrupted at, if it still runs.
Deadline(w) == retiredAt[w] + GracefulRampDown

\* VU w's current blocking call, which returns at time t, is let to return:
\* the VU is not retired, or t is within its graceful period.
MayReturn(w, t) == ~retiring[w] \/ t <= Deadline(w)

\* The time VU w's current sleep ends.
WakeTime(w) == now[w] + sleeping[w]

\* Lines 195-202: k6 starts an iteration of the default function on VU w:
\* activeUsers.add(1), which sets the gauge to 1, then sleep(thinkTime).
StartIteration(w) ==
  /\ pc[w] = "idle"
  /\ ~retiring[w]
  /\ itersStarted < MaxIters
  /\ itersStarted' = itersStarted + 1
  /\ metrics' = [metrics EXCEPT !.active_users = 1]
  /\ plusCalls' = [plusCalls EXCEPT ![w] = @ + 1]
  /\ \E thinkTime \in ThinkTimes :
       sleeping' = [sleeping EXCEPT ![w] = thinkTime]
  /\ pc' = [pc EXCEPT ![w] = "think"]
  /\ UNCHANGED <<endpoint, iter, retiring, retiredAt, now, retryCount, startTime,
                 requestStartTime, result, rawData, report, log, started,
                 returned, minusCalls, retiredInFlight,
                 summary, probe>>

\* Lines 204, 81-95: the think-time sleep is over, makeRequest is called and
\* issues the http.get of attempt 0.
BeginRequest(w) ==
  /\ pc[w] = "think"
  /\ MayReturn(w, WakeTime(w))
  /\ now' = [now EXCEPT ![w] = WakeTime(w)]
  /\ sleeping' = [sleeping EXCEPT ![w] = 0]
  /\ retryCount' = [retryCount EXCEPT ![w] = 0]
  /\ requestStartTime' = [requestStartTime EXCEPT ![w] = WakeTime(w)]
  /\ startTime' = [startTime EXCEPT ![w] = WakeTime(w)]
  /\ LoopContinues(0)
  /\ pc' = [pc EXCEPT ![w] = "attempt"]
  /\ log' = [log EXCEPT ![w] = <<>>]
  /\ started' = [started EXCEPT ![w] = @ + 1]
  /\ UNCHANGED <<endpoint, iter, retiring, retiredAt, result, rawData, metrics,
                 report, itersStarted, returned, plusCalls, minusCalls, retiredInFlight,
                 summary, probe>>

\* Lines 95-143: http.get returns a response that passes check(); the outcome
\* is stored and returned, and the default function goes on to sleep(browseTime).
AttemptSucceeds(w, response) ==
  /\ pc[w] = "attempt"
  /\ Check(response)
  /\ MayReturn(w, now[w] + response.duration)
  /\ LET t == now[w] + response.duration
         responseTime == t - startTime[w]
     IN  /\ rawData' = [rawData EXCEPT ![w] =
                          RecordSuccess(@, RequestData(w, response, responseTime))]
         /\ metrics' = SuccessMetrics(HttpGetMetrics(metrics, response),
                                      BackendOf(response), responseTime)
         /\ result' = [result EXCEPT ![w] =
                         SuccessResult(response, responseTime, retryCount[w])]
         /\ Browse(w, t)
  /\ returned' = [returned EXCEPT ![w] = @ + 1]
  /\ log' = [log EXCEPT ![w] = Append(@, AttemptEvent(response))]
  /\ UNCHANGED <<endpoint, iter, retiring, retiredAt, retryCount, startTime,
                 requestStartTime, report, itersStarted, started, plusCalls,
                 minusCalls, retiredInFlight,
                 summary, probe>>

\* Lines 95-103, 145-179: http.get returns a response that fails check():
\* retryCount++, retryCounter.add(1), then the backoff sleep, or the next
\* turn of the loop, or the failure path after the loop.
AttemptFails(w, response) ==
  /\ pc[w] = "attempt"
  /\ ~Check(response)
  /\ MayReturn(w, now[w] + response.duration)
  /\ LET t == now[w] + response.duration
         rc == retryCount[w] + 1
         m == [HttpGetMetrics(metrics, response) EXCEPT !.retries = @ + 1]
         lg == Append(log[w], AttemptEvent(response))
     IN  /\ retryCount' = [retryCount EXCEPT ![w] = rc]
         /\ IF ShouldBackoff(rc)
            THEN /\ pc' = [pc EXCEPT ![w] = "backoff"]
                 /\ now' = [now EXCEPT ![w] = t]
                 /\ sleeping' = [sleeping EXCEPT ![w] = BackoffTime(rc)]
                 /\ log' = [log EXCEPT ![w] = Append(lg, SleepEvent(BackoffTime(rc)))]
                 /\ metrics' = m
                 /\ UNCHANGED <<startTime, rawData, result, returned>>
            ELSE IF LoopContinues(rc)
            THEN /\ now' = [now EXCEPT ![w] = t]
                 /\ startTime' = [startTime EXCEPT ![w] = t]
                 /\ log' = [log EXCEPT ![w] = lg]
                 /\ metrics' = m
                 /\ UNCHANGED <<pc, sleeping, rawData, result, returned>>
            ELSE FailedExit(w, t, rc, m, lg)
  /\ UNCHANGED <<endpoint, iter, retiring, retiredAt, requestStartTime, report,
                 itersStarted, started, plusCalls, minusCalls, retiredInFlight,
                 summary, probe>>

\* Lines 150, 92-95: the backoff sleep is over; the loop condition is tested
\* and the next attempt's http.get is issued.
BackoffDone(w) ==
  /\ pc[w] = "backoff"
  /\ MayReturn(w, WakeTime(w))
  /\ IF LoopContinues(retryCount[w])
     THEN /\ startTime' = [startTime EXCEPT ![w] = WakeTime(w)]
          /\ now' = [now EXCEPT ![w] = WakeTime(w)]
          /\ sleeping' = [sleeping EXCEPT ![w] = 0]
          /\ pc' = [pc EXCEPT ![w] = "attempt"]
          /\ UNCHANGED <<rawData, metrics, result, returned, log>>
     ELSE FailedExit(w, WakeTime(w), retryCount[w], metrics, log[w])
  /\ UNCHANGED <<endpoint, iter, retiring, retiredAt, retryCount, requestStartTime,
                 report, itersStarted, started, plusCalls, minusCalls, retiredInFlight,
                 summary, probe>>

\* Lines 215-218: the browse-time sleep is over; activeUsers.add(-1) sets the
\* gauge to -1 and the iteration ends.  A retired VU gets no new iteration.
EndIteration(w) ==
  /\ pc[w] = "browse"
  /\ MayReturn(w, WakeTime(w))
  /\ now' = [now EXCEPT ![w] = WakeTime(w)]
  /\ sleeping' = [sleeping EXCEPT ![w] = 0]
  /\ metrics' = [metrics EXCEPT !.active_users = -1]
  /\ minusCalls' = [minusCalls EXCEPT ![w] = @ + 1]
  /\ iter' = [iter EXCEPT ![w] = @ + 1]
  /\ pc' = [pc EXCEPT ![w] = IF retiring[w] THEN "stopped" ELSE "idle"]
  /\ retiredAt' = [retiredAt EXCEPT ![w] = 0]
  /\ UNCHANGED <<endpoint, retiring, retryCount, startTime,
                 requestStartTime, result, rawData, report, itersStarted, log,
                 started, returned, plusCalls, retiredInFlight,
                 summary, probe>>

\* options.stages: the ramp driver retires VU w, here at the moment the VU's
\* current blocking call began.  An idle VU stops at once; a VU inside an
\* iteration is left to finish it within the graceful period.
Retire(w) ==
  /\ pc[w] # "stopped"
  /\ ~retiring[w]
  /\ retiring' = [retiring EXCEPT ![w] = TRUE]
  /\ retiredAt' = [retiredAt EXCEPT ![w] = IF pc[w] = "idle" THEN 0 ELSE now[w]]
  /\ pc' = [pc EXCEPT ![w] = IF pc[w] = "idle" THEN "stopped" ELSE @]
  /\ retiredInFlight' = [retiredInFlight EXCEPT ![w] = pc[w] \in {"attempt", "backoff"}]
  /\ UNCHANGED <<endpoint, iter, now, sleeping, retryCount, startTime, requestStartTime, result,
                 rawData, metrics, report, itersStarted, log, started,
                 returned, plusCalls, minusCalls,
                 summary, probe>>

\* options.stages with k6's default graceful period: the iteration of a
\* retired VU that is still running when the period is over is interrupted
\* where it stands; nothing after that point in the script runs.
Interrupt(w) ==
  /\ retiring[w]
  /\ Running(w)
  /\ IF pc[w] = "attempt"
     THEN \E response \in Answers : now[w] + response.duration > Deadline(w)
     ELSE WakeTime(w) > Deadline(w)
  /\ pc' = [pc EXCEPT ![w] = "stopped"]
  /\ now' = [now EXCEPT ![w] = Deadline(w)]
  /\ sleeping' = [sleeping EXCEPT ![w] = 0]
  /\ retiredAt' = [retiredAt EXCEPT ![w] = 0]
  /\ UNCHANGED <<endpoint, iter, retiring, retryCount, startTime,
                 requestStartTime, result, rawData, metrics, report,
                 itersStarted, log, started, returned, plusCalls, minusCalls, retiredInFlight,
                 summary, probe>>

\* ------------------------------------------------------------ the summary
\* rawData.requests.filter(r => r.success).length
SuccessCount(rd) ==
  Cardinality({i \in DOMAIN rd.requests : rd.requests[i].success})

\* rawData.requests.filter(r => !r.success).length
FailureCount(rd) ==
  Cardinality({i \in DOMAIN rd.requests : ~rd.requests[i].success})

\* backendCounts[backend] = (backendCounts[backend] || 0) + 1; 0 for no key
BackendCounts(rd) ==
  [b \in Backends |-> Cardinality({i \in DOMAIN rd.backends : rd.backends[i] = b})]

\* responseTimeHistogram[getResponseTimeBucket(rt)]++
ResponseTimeHistogram(rd) ==
  [b \in Buckets |->
     Cardinality({i \in DOMAIN rd.responseTimes :
                    getResponseTimeBucket(rd.responseTimes[i]) = b})]

\* retryDistribution[retries] = (retryDistribution[retries] || 0) + 1
RetryDistribution(rd) ==
  [n \in 0..(MAX_RETRIES + 1) |->
     Cardinality({i \in DOMAIN rd.retries : rd.retries[i] = n})]

\* generateEnhancedHtmlReport(k6Data, rawData): the series and totals it
\* writes into the page.
generateEnhancedHtmlReport(k6Data, rd) ==
  [totalRequests |-> k6Data.http_reqs,
   successCount |-> SuccessCount(rd),
   failureCount |-> FailureCount(rd),
   backendCounts |-> BackendCounts(rd),
   responseTimeHistogram |-> ResponseTimeHistogram(rd),
   retryDistribution |-> RetryDistribution(rd)]

\* A number of the summary as a fraction num / den; den = 0 is NaN (0 / 0).
Frac(n, d) == [num |-> n, den |-> d]

IsNaN(x) == x.den = 0

\* x >= k and x < k as JavaScript compares them: false for NaN
GreaterEq(x, k) == x.den > 0 /\ x.num >= k * x.den
LessThan(x, k) == x.den > 0 /\ x.num < k * x.den

RECURSIVE SortedValues(_, _)
\* the samples of a Trend, ascending, from the tally of each value in S
SortedValues(tally, S) ==
  IF S = {} THEN <<>>
  ELSE LET d == CHOOSE x \in S : \A y \in S : x <= y
       IN  [i \in 1..tally[d] |-> d] \o SortedValues(tally, S \ {d})

\* values['p(95)'], values['p(99)'] of a k6 Trend: 0 without samples, else
\* linear interpolation at index pct / 100 * (count - 1) of the sorted samples
Percentile(values, pct) ==
  LET n == Len(values)
      i100 == pct * (n - 1)
      lo == i100 \div 100
      f == i100 % 100
      hi == IF f = 0 THEN lo ELSE lo + 1
  IN  IF n = 0 THEN Frac(0, 1)
      ELSE IF n = 1 THEN Frac(values[1], 1)
      ELSE Frac(values[lo + 1] * 100 + (values[hi + 1] - values[lo + 1]) * f, 100)

\* values.avg of a k6 Trend: 0 without samples
Average(values) ==
  IF values = <<>> THEN Frac(0, 1)
  ELSE Frac(SumOver(values, DOMAIN values), Len(values))

\* failedRequests = data.metrics.http_req_failed.values.rate * totalRequests
FailedRequests(k6Data) ==
  IF k6Data.http_req_failed.count = 0 THEN 0
  ELSE (k6Data.http_req_failed.nonzero * k6Data.http_reqs)
         \div k6Data.http_req_failed.count

\* The tier test written with > : a success rate of exactly 95 is not excellent.
VerdictStrict(successRate, p95ResponseTime) ==
  IF successRate.den > 0 /\ successRate.num > 95 * successRate.den
          /\ LessThan(p95ResponseTime, 1000) THEN "EXCELLENT"
  ELSE IF GreaterEq(successRate, 90) /\ LessThan(p95ResponseTime, 2000) THEN "GOOD"
  ELSE IF GreaterEq(successRate, 80) /\ LessThan(p95ResponseTime, 5000) THEN "ACCEPTABLE"
  ELSE "NEEDS WORK"

\* Lines 254-262: the performance assessment
Verdict(successRate, p95ResponseTime) ==
  IF GreaterEq(successRate, 95) /\ LessThan(p95ResponseTime, 1000) THEN "EXCELLENT"
  ELSE IF GreaterEq(successRate, 90) /\ LessThan(p95ResponseTime, 2000) THEN "GOOD"
  ELSE IF GreaterEq(successRate, 80) /\ LessThan(p95ResponseTime, 5000) THEN "ACCEPTABLE"
  ELSE "NEEDS WORK"

\* successRate = ((totalRequests - failedRequests) / totalRequests) * 100
SuccessRate(totalRequests, failedRequests) ==
  Frac(100 * (totalRequests - failedRequests), totalRequests)

\* Lines 224-232, 240-262: the figures handleSummary prints.  (maxVUs and
\* requestsPerSec depend on the test's wall-clock length and are left out.)
Summarize(k6Data) ==
  LET totalRequests == k6Data.http_reqs
      failedRequests == FailedRequests(k6Data)
      successRate == SuccessRate(totalRequests, failedRequests)
      durations == SortedValues(k6Data.http_req_duration, Durations)
      p95ResponseTime == Percentile(durations, 95)
  IN  [threw |-> FALSE,
       totalRequests |-> totalRequests,
       failedRequests |-> failedRequests,
       successRate |-> successRate,
       avgResponseTime |-> Average(durations),
       p95ResponseTime |-> p95ResponseTime,
       p99ResponseTime |-> Percentile(durations, 99),
       totalRetries |-> k6Data.retries,
       verdict |-> Verdict(successRate, p95ResponseTime)]

\* Lines 223-262: k6 calls handleSummary once, after the last VU has stopped,
\* in a runtime of its own: the rawData it passes on is that runtime's.
\* When no http.get was made, k6 either leaves http_reqs out of data.metrics,
\* and line 224 throws a TypeError, or reports it with count 0.
\* (The return statement of lines 268-272 then calls textSummary, which the
\* script does not import; summary and report are what was computed and
\* printed before that.)
handleSummary ==
  /\ \A w \in Workers : pc[w] = "stopped"
  /\ summary = NoSummary
  /\ \/ /\ metrics.http_reqs = 0
        /\ summary' = [threw |-> TRUE]
        /\ UNCHANGED report
     \/ /\ summary' = Summarize(metrics)
        /\ report' = generateEnhancedHtmlReport(metrics, rawData[SummaryRuntime])
  /\ UNCHANGED <<endpoint, pc, iter, retiring, retiredAt, now, sleeping, retryCount, startTime,
                 requestStartTime, result, rawData, metrics, itersStarted,
                 log, started, returned, plusCalls, minusCalls, retiredInFlight, probe>>

Next ==
  \/ \E w \in Workers : StartIteration(w)
  \/ \E w \in Workers : BeginRequest(w)
  \/ \E w \in Workers : \E response \in Answers : AttemptSucceeds(w, response)
  \/ \E w \in Workers : \E response \in Answers : AttemptFails(w, response)
  \/ \E w \in Workers : BackoffDone(w)
  \/ \E w \in Workers : EndIteration(w)
  \/ \E w \in Workers : Retire(w)
  \/ \E w \in Workers : Interrupt(w)
  \/ handleSummary

Spec == Init /\ [][Next]_vars

\* --------------------------------------------- the pure functions on their own
\* Each behaviour of PureSpec applies one function to one input.
\* Everything but probe: a call of a pure function leaves the test untouched.
testVars ==
  <<endpoint, pc, iter, retiring, retiredAt, now, sleeping, retryCount, startTime,
    requestStartTime, result, rawData, metrics, report, itersStarted,
    log, started, returned, plusCalls, minusCalls, retiredInFlight, summary>>

\* <<totalRequests, failedRequests>>: success rates 100, 95, 90, 85, 80, 75 of
\* 20 requests, and 95, 94.99, 89.99, 79.99 of 10,000
VerdictInputs ==
  {<<20, f>> : f \in 0..5} \cup
  {<<10000, 500>>, <<10000, 501>>, <<10000, 1001>>, <<10000, 2001>>}

\* p95 response times on and next to each tier's limit
P95Inputs == {900, 999, 1000, 1999, 2000, 4999, 5000}

\* The largest retryCount the backoff is computed for here.
MaxBackoffCount == 4

\* The largest response time that is bucketed here.
MaxLatency == 5200

\* 200 responses with every combination of the three headers absent, empty
\* or set
HeaderResponses ==
  [status : {200},
   XBackendServer : {Undefined, "", "node-7", "error"},
   XServer : {Undefined, "", "edge-1"},
   Server : {Undefined, "", "nginx"},
   duration : {50}]

\* lines 226, 254-262 on one pair of totals and one p95
ProbeVerdict(totalRequests, failedRequests, p95ResponseTime) ==
  /\ probe = NoProbe
  /\ probe' = [fn |-> "Verdict", totalRequests |-> totalRequests,
                failedRequests |-> failedRequests,
                p95ResponseTime |-> p95ResponseTime,
                verdict |-> Verdict(SuccessRate(totalRequests, failedRequests),
                                    Frac(p95ResponseTime, 1))]
  /\ UNCHANGED testVars

\* line 149 after the n-th failed attempt
ProbeBackoff(n) ==
  /\ probe = NoProbe
  /\ probe' = [fn |-> "BackoffTime", retryCount |-> n,
                backoffTime |-> BackoffTime(n),
                previous |-> IF n > 1 THEN BackoffTime(n - 1) ELSE 0]
  /\ UNCHANGED testVars

\* lines 182-190 on one response time
ProbeBucket(responseTime) ==
  /\ probe = NoProbe
  /\ probe' = [fn |-> "getResponseTimeBucket", responseTime |-> responseTime,
                bucket |-> getResponseTimeBucket(responseTime)]
  /\ UNCHANGED testVars

\* lines 92-142 for a first attempt that is answered with `response`: the
\* check passes and makeRequest returns with retryCount still 0
ProbeBackend(response) ==
  /\ Check(response)
  /\ probe = NoProbe
  /\ probe' = [fn |-> "makeRequest", response |-> response,
                result |-> SuccessResult(response, response.duration, 0)]
  /\ UNCHANGED testVars

PureNext ==
  \/ \E tf \in VerdictInputs : \E p \in P95Inputs : ProbeVerdict(tf[1], tf[2], p)
  \/ \E n \in 1..MaxBackoffCount : ProbeBackoff(n)
  \/ \E t \in 0..MaxLatency : ProbeBucket(t)
  \/ \E response \in HeaderResponses : ProbeBackend(response)

PureSpec == Init /\ [][PureNext]_vars


\* ------------------------------------------------------ auxiliary operators
\* the statuses of the attempts of VU w's current makeRequest, in order
AttemptsOf(w) ==
  LET IsAttempt(e) == e.ev = "attempt" IN SelectSeq(log[w], IsAttempt)

\* the backoff sleeps of VU w's current makeRequest, in order
SleepsOf(w) ==
  LET IsSleep(e) == e.ev = "sleep" IN SelectSeq(log[w], IsSleep)

\* VU w's last makeRequest has returned and log[w], result[w] are that call's
Returned(w) == started[w] > 0 /\ returned[w] = started[w]

\* the Backoff Policy of the specification
delay(n) == Min(1000 * Pow2(n - 1), 2000)

RECURSIVE DelaySum(_)
\* delay(1) + ... + delay(r)
DelaySum(r) == IF r <= 0 THEN 0 ELSE delay(r) + DelaySum(r - 1)

\* the outcomes all VUs have recorded
TotalRecorded ==
  SumOver([w \in Workers |-> Len(rawData[w].requests)], Workers)

\* ------------------------------------------------------------------ claims

\* C1: every outcome makeRequest returns satisfies: success = false implies
\* retries = MAX_RETRIES and backend = 'error'; success = true implies
\* retries <= MAX_RETRIES and backend # 'error'.
C1_OutcomeInvariant ==
  \A w \in Workers :
    returned[w] > 0 =>
      /\ ~result[w].success =>
           result[w].retries = MAX_RETRIES /\ result[w].backend = "error"
      /\ result[w].success =>
           result[w].retries <= MAX_RETRIES /\ result[w].backend # "error"

\* C2: each makeRequest call that runs to its return has stored exactly one
\* record in rawData.requests and returned exactly one outcome, on the
\* success path and on the failure path alike; a call in progress has stored
\* none yet.
C2_OneRecordPerInvocation ==
  \A w \in Workers :
    /\ Len(rawData[w].requests) = returned[w]
    /\ started[w] - returned[w] \in {0, 1}
    /\ Returned(w) =>
         rawData[w].requests[returned[w]].success = result[w].success

C2_Witness ==
  \E w \in Workers :
    /\ returned[w] = 2
    /\ Len(rawData[w].requests) = 2
    /\ rawData[w].requests[1].success
    /\ ~rawData[w].requests[2].success

\* C3: makeRequest never makes more than MAX_RETRIES + 1 attempts and none
\* after a successful one; when it returns, either its last attempt is the
\* first successful one (index k, k + 1 attempts, outcome success with
\* retries = k) or all MAX_RETRIES + 1 attempts failed and the outcome is a
\* failure.
C3_BoundedAttempts ==
  \A w \in Workers :
    LET a == AttemptsOf(w)
        n == Len(a)
    IN  /\ n <= MAX_RETRIES + 1
        /\ \A i \in 1..(n - 1) : a[i].val # 200
        /\ Returned(w) =>
             /\ n >= 1
             /\ IF a[n].val = 200
                THEN result[w].success /\ result[w].retries = n - 1
                ELSE ~result[w].success /\ n = MAX_RETRIES + 1

C3_Witness ==
  \E w1, w2 \in Workers :
    /\ Returned(w1) /\ ~result[w1].success /\ Len(AttemptsOf(w1)) = MAX_RETRIES + 1
    /\ Returned(w2) /\ result[w2].success /\ Len(AttemptsOf(w2)) = 2

\* C4: within one makeRequest the first event is an attempt, every backoff
\* sleep directly follows a failed attempt and directly precedes the next
\* attempt, the sleep before attempt i is delay(i), no sleep follows the last
\* attempt, and an outcome with retries = r has slept delay(1) + ... + delay(r).
C4_BackoffBetweenAttempts ==
  \A w \in Workers :
    LET lg == log[w]
        AttemptsBefore(j) ==
          Cardinality({i \in 1..(j - 1) : lg[i].ev = "attempt"})
    IN  /\ lg # <<>> => lg[1].ev = "attempt"
        /\ \A j \in DOMAIN lg :
             lg[j].ev = "sleep" =>
               /\ j > 1 /\ lg[j - 1].ev = "attempt" /\ lg[j - 1].val # 200
               /\ lg[j].val = delay(AttemptsBefore(j))
               /\ j < Len(lg) => lg[j + 1].ev = "attempt"
        /\ \A j \in DOMAIN lg :
             (lg[j].ev = "attempt" /\ j > 1) => lg[j - 1].ev = "sleep"
        /\ Returned(w) =>
             /\ lg[Len(lg)].ev = "attempt"
             /\ SumOver([i \in DOMAIN SleepsOf(w) |-> SleepsOf(w)[i].val],
                        DOMAIN SleepsOf(w)) = DelaySum(result[w].retries)

C4_Witness ==
  \E w \in Workers :
    /\ Returned(w)
    /\ result[w].success
    /\ result[w].retries = 2
    /\ Len(SleepsOf(w)) = 2
    /\ SleepsOf(w)[1].val = 1000
    /\ SleepsOf(w)[2].val = 2000

\* C5: the snapshot the summarizer reads at the end of the test holds as many
\* outcomes as the VUs recorded in all.
C5_SnapshotHoldsAllOutcomes ==
  report # NoReport =>
    report.successCount + report.failureCount = TotalRecorded

\* The number of raw samples the claim of a bounded store is tried with.
StoreBound == 1

\* C6: the number of raw samples a metrics store retains never exceeds a
\* fixed bound, however many outcomes are recorded.
C6_BoundedStore ==
  \A r \in Runtimes : Len(rawData[r].responseTimes) <= StoreBound

\* C7: a VU has never applied more -1 than +1 to the active-users gauge, and
\* once it has been retired and has stopped, every +1 has its -1.
C7_GaugeBalanced ==
  \A w \in Workers :
    /\ minusCalls[w] <= plusCalls[w]
    /\ pc[w] = "stopped" => minusCalls[w] = plusCalls[w]

\* C8: when a VU that was retired with a logical request in flight stops,
\* that request has resolved and is recorded in its metrics store; a stopped
\* VU starts no request.
C8_InFlightOutcomeRecorded ==
  [][\A w \in Workers :
       /\ (pc'[w] = "stopped" /\ retiredInFlight'[w]) =>
            Len(rawData'[w].requests) = started'[w]
       /\ pc[w] = "stopped" => started'[w] = started[w]]_vars

\* C9: in the snapshot the summarizer reads, success count + failure count
\* equals the total request count the report states.
C9_CountsAddUp ==
  report # NoReport =>
    report.successCount + report.failureCount = report.totalRequests

\* C10: the per-bucket latency counts add up to the number of recorded
\* latencies: every recorded outcome, successful or failed, has added one to
\* one bucket.
C10_BucketsCoverLatencies ==
  SumOver(metrics.response_time_buckets, Buckets) =
    SumOver([w \in Workers |-> Len(rawData[w].responseTimes)], Workers)

\* the successful outcomes all VUs have recorded
TotalSucceeded ==
  SumOver([w \in Workers |->
             Cardinality({i \in DOMAIN rawData[w].requests :
                            rawData[w].requests[i].success})], Workers)

\* every makeRequest call that was begun has returned
Quiescent == \A w \in Workers : started[w] = returned[w]

\* C11: the success rate the summary reports is the number of successful
\* outcomes over the number of all outcomes (logical requests), in percent,
\* whatever the mix of outcomes and however many retries they took.
C11_SuccessRateOverOutcomes ==
  (summary # NoSummary /\ ~summary.threw /\ Quiescent /\ TotalRecorded > 0) =>
    summary.successRate.num * TotalRecorded =
      100 * TotalSucceeded * summary.successRate.den

\* C12: when no request was made, the summary marks the success rate and the
\* percentiles as 'insufficient data': it does not fail, the rate is not NaN,
\* the percentiles are not 0 and no tier is derived from them.
C12_NoDataIsMarked ==
  (summary # NoSummary /\ metrics.http_reqs = 0 /\ TotalRecorded = 0) =>
    /\ ~summary.threw
    /\ ~IsNaN(summary.successRate)
    /\ summary.p95ResponseTime # Frac(0, 1)
    /\ summary.p99ResponseTime # Frac(0, 1)
    /\ summary.verdict \notin {"EXCELLENT", "GOOD", "ACCEPTABLE", "NEEDS WORK"}

\* C13: the verdict is exactly one of four tiers: excellent iff the success
\* rate s >= 95 and p95 < 1000; else good iff s >= 90 and p95 < 2000; else
\* acceptable iff s >= 80 and p95 < 5000; else needs-work.  9,500 successes
\* and 500 failures with p95 = 900 are excellent.
C13_VerdictTiers ==
  probe.fn = "Verdict" =>
    LET T == probe.totalRequests
        S == probe.totalRequests - probe.failedRequests
        p == probe.p95ResponseTime
        excellent == 100 * S >= 95 * T /\ p < 1000
        good == ~excellent /\ 100 * S >= 90 * T /\ p < 2000
        acceptable == ~excellent /\ ~good /\ 100 * S >= 80 * T /\ p < 5000
    IN  /\ probe.verdict \in {"EXCELLENT", "GOOD", "ACCEPTABLE", "NEEDS WORK"}
        /\ probe.verdict = "EXCELLENT" <=> excellent
        /\ probe.verdict = "GOOD" <=> good
        /\ probe.verdict = "ACCEPTABLE" <=> acceptable
        /\ (S = 9500 /\ T = 10000 /\ p = 900) => probe.verdict = "EXCELLENT"

C13_Witness ==
  /\ probe.fn = "Verdict"
  /\ probe.totalRequests = 20
  /\ probe.failedRequests = 1
  /\ probe.p95ResponseTime = 999
  /\ probe.verdict = "EXCELLENT"

\* C14: the responseTime of an outcome, successful or failed, is the time from
\* the start of the request's first attempt to its resolution, the earlier
\* attempts and the backoff waits between them included.
C14_ResponseTimeSpansRequest ==
  \A w \in Workers :
    (Returned(w) /\ pc[w] = "browse") =>
      result[w].responseTime = now[w] - requestStartTime[w]

\* C15: the wait before retry n, for n in 1..MAX_RETRIES, is
\* min(1000 * 2^(n-1), 2000) ms, that is 1000 then 2000, and the waits never
\* decrease as n grows.
C15_BackoffSchedule ==
  probe.fn = "BackoffTime" =>
    /\ probe.retryCount = 1 => probe.backoffTime = 1000
    /\ probe.retryCount = 2 => probe.backoffTime = 2000
    /\ probe.retryCount \in 1..MAX_RETRIES =>
         probe.backoffTime = delay(probe.retryCount)
    /\ probe.previous <= probe.backoffTime
    /\ probe.backoffTime <= 2000

C15_Witness ==
  /\ probe.fn = "BackoffTime"
  /\ probe.retryCount = MAX_RETRIES
  /\ probe.previous = 1000
  /\ probe.backoffTime = 2000

\* The seven bins of the specification: lower bound included, upper bound
\* excluded; the last bin has no upper bound (hi = -1).
Bins ==
  { [lo |-> 0, hi |-> 100, label |-> "0-100ms"],
    [lo |-> 100, hi |-> 200, label |-> "100-200ms"],
    [lo |-> 200, hi |-> 500, label |-> "200-500ms"],
    [lo |-> 500, hi |-> 1000, label |-> "500-1000ms"],
    [lo |-> 1000, hi |-> 2000, label |-> "1000-2000ms"],
    [lo |-> 2000, hi |-> 5000, label |-> "2000-5000ms"],
    [lo |-> 5000, hi |-> -1, label |-> "5000ms+"] }

InBin(t, b) == b.lo <= t /\ (b.hi = -1 \/ t < b.hi)

\* C16: getResponseTimeBucket maps every response time t >= 0 to the one bin
\* of [0,100), [100,200), [200,500), [500,1000), [1000,2000), [2000,5000),
\* [5000,inf) that holds t; a boundary value belongs to the upper bin.
C16_BucketsPartition ==
  probe.fn = "getResponseTimeBucket" =>
    /\ Cardinality({b \in Bins : InBin(probe.responseTime, b)}) = 1
    /\ \A b \in Bins :
         InBin(probe.responseTime, b) <=> probe.bucket = b.label
    /\ probe.bucket \in Buckets

C16_Witness ==
  /\ probe.fn = "getResponseTimeBucket"
  /\ probe.responseTime = 5000
  /\ probe.bucket = "5000ms+"

\* the three headers of a response in the order they are asked for
HeadersOf(response) ==
  <<response.XBackendServer, response.XServer, response.Server>>

\* the first element of hs, in order, that is in the set Ok; 'unknown' if none
FirstOf(hs, Ok) ==
  LET I == {i \in DOMAIN hs : hs[i] \in Ok}
  IN  IF I = {} THEN "unknown"
      ELSE hs[CHOOSE i \in I : \A j \in I : i <= j]

HeaderValues ==
  UNION {{r.XBackendServer, r.XServer, r.Server} : r \in HeaderResponses}

\* C17: the backend of a successful outcome is the value of the first header
\* that is present, in the order X-Backend-Server, X-Server, Server; with none
\* of them present it is 'unknown', which is not the failure sentinel 'error'.
\* An endpoint that always answers 200 with backend 'node-7' yields only
\* outcomes with success = true, retries = 0, backend = 'node-7'.
C17_FirstPresentHeader ==
  probe.fn = "makeRequest" =>
    /\ probe.result.backend =
         FirstOf(HeadersOf(probe.response), HeaderValues \ {Undefined})
    /\ (\A i \in 1..3 : HeadersOf(probe.response)[i] = Undefined) =>
         (probe.result.backend = "unknown" /\ probe.result.backend # "error")
    /\ probe.response.XBackendServer = "node-7" =>
         /\ probe.result.success
         /\ probe.result.retries = 0
         /\ probe.result.backend = "node-7"

\* C17, amended: the backend of a successful outcome is the value of the
\* first header that is present with a non-empty value, in the order
\* X-Backend-Server, X-Server, Server; with no such header it is 'unknown',
\* which is not the failure sentinel 'error'.  An endpoint that always answers
\* 200 with backend 'node-7' yields only outcomes with success = true,
\* retries = 0, backend = 'node-7'.
C17_FirstNonEmptyHeader ==
  probe.fn = "makeRequest" =>
    /\ probe.result.backend =
         FirstOf(HeadersOf(probe.response), HeaderValues \ {Undefined, ""})
    /\ (\A i \in 1..3 : HeadersOf(probe.response)[i] \in {Undefined, ""}) =>
         (probe.result.backend = "unknown" /\ probe.result.backend # "error")
    /\ probe.response.XBackendServer = "node-7" =>
         /\ probe.result.success
         /\ probe.result.retries = 0
         /\ probe.result.backend = "node-7"

C17_Witness ==
  /\ probe.fn = "makeRequest"
  /\ probe.response.XBackendServer = ""
  /\ probe.response.XServer = "edge-1"
  /\ probe.result.success
  /\ probe.result.backend = "edge-1"

RECURSIVE CountInOrder(_, _)
\* keys.forEach(k => counts[k]++), from the first key to the last
CountInOrder(keys, counts) ==
  IF keys = <<>> THEN counts
  ELSE CountInOrder(Tail(keys), [counts EXCEPT ![Head(keys)] = @ + 1])

Reverse(seq) == [i \in DOMAIN seq |-> seq[Len(seq) + 1 - i]]

\* a store holding the same outcomes in the opposite order
ReverseStore(rd) ==
  [requests |-> Reverse(rd.requests), responseTimes |-> Reverse(rd.responseTimes),
   backends |-> Reverse(rd.backends), retries |-> Reverse(rd.retries),
   timestamps |-> Reverse(rd.timestamps), userSessions |-> Reverse(rd.userSessions)]

RECURSIVE SucceededOf(_)
\* the successful outcomes of the VUs in S, VU by VU, each VU's in the order
\* it recorded them
SucceededOf(S) ==
  IF S = {} THEN <<>>
  ELSE LET w == CHOOSE x \in S : \A y \in S : x <= y
           Ok(r) == r.success
       IN  SelectSeq(rawData[w].requests, Ok) \o SucceededOf(S \ {w})

\* C18: recording is commutative.  Whatever the order and interleaving in
\* which the VUs recorded their outcomes, the per-backend counts and the
\* per-bucket histogram are those of the recorded successful outcomes counted
\* VU by VU, the error count is the number of failed ones, and the counts
\* derived from a store
\* (per backend, per bucket, per retry count, successes and failures) are the
\* same when its outcomes are taken in the opposite order.
C18_RecordingCommutes ==
  /\ LET ok == SucceededOf(Workers)
     IN  /\ metrics.backend_requests =
              CountInOrder([i \in DOMAIN ok |-> ok[i].backend],
                           [b \in Backends |-> 0])
         /\ metrics.response_time_buckets =
              CountInOrder([i \in DOMAIN ok |-> getResponseTimeBucket(ok[i].responseTime)],
                           [k \in Buckets |-> 0])
         /\ metrics.errors.nonzero = TotalRecorded - Len(ok)
  /\ \A w \in Workers :
       LET rd == rawData[w]
           rev == ReverseStore(rd)
           bins == [i \in DOMAIN rd.responseTimes |->
                      getResponseTimeBucket(rd.responseTimes[i])]
           noBackend == [b \in Backends |-> 0]
           noBin == [k \in Buckets |-> 0]
           noRetries == [n \in 0..(MAX_RETRIES + 1) |-> 0]
           backendCounts == BackendCounts(rd)
           responseTimeHistogram == ResponseTimeHistogram(rd)
           retryDistribution == RetryDistribution(rd)
       IN  Len(rd.requests) > 0 =>
             /\ CountInOrder(rd.backends, noBackend) = backendCounts
             /\ CountInOrder(rev.backends, noBackend) = backendCounts
             /\ CountInOrder(bins, noBin) = responseTimeHistogram
             /\ CountInOrder(Reverse(bins), noBin) = responseTimeHistogram
             /\ CountInOrder(rd.retries, noRetries) = retryDistribution
             /\ CountInOrder(rev.retries, noRetries) = retryDistribution
             /\ SuccessCount(rev) = SuccessCount(rd)
             /\ FailureCount(rev) = FailureCount(rd)

C18_Witness ==
  \E w \in Workers :
    /\ Len(rawData[w].requests) = 2
    /\ rawData[w].requests[1].success
    /\ ~rawData[w].requests[2].success
    /\ metrics.backend_requests[rawData[w].backends[1]] = 1
    /\ metrics.errors.nonzero = 1

\* the sum of the retries fields of all recorded outcomes
RecordedRetries ==
  SumOver([w \in Workers |-> SumOver(rawData[w].retries, DOMAIN rawData[w].retries)],
          Workers)

\* C19: once every request has resolved, the 'retries' counter, which the
\* summary prints as Total Retries, is the sum of the retries fields of all
\* recorded outcomes.
C19_RetriesCounterIsSum ==
  Quiescent =>
    /\ metrics.retries = RecordedRetries
    /\ (summary # NoSummary /\ ~summary.threw) =>
         summary.totalRetries = RecordedRetries

\* C20: once every request has resolved, the 'errors' rate holds exactly one
\* sample per logical request, non-zero for a failed one and zero for a
\* successful one, so that its value is failed / all.
C20_ErrorRateOverRequests ==
  Quiescent =>
    /\ metrics.errors.count = TotalRecorded
    /\ metrics.errors.nonzero = TotalRecorded - TotalSucceeded

\* the five parallel arrays of a store have one length, and backends[i] and
\* retries[i] are those of requests[i]
Aligned(rd) ==
  /\ Len(rd.responseTimes) = Len(rd.requests)
  /\ Len(rd.backends) = Len(rd.requests)
  /\ Len(rd.retries) = Len(rd.requests)
  /\ Len(rd.timestamps) = Len(rd.requests)
  /\ \A i \in DOMAIN rd.requests :
       /\ rd.backends[i] = rd.requests[i].backend
       /\ rd.retries[i] = rd.requests[i].retries

\* the i-th record of a store states what the outcome `outcome` states
Agrees(rd, i, outcome) ==
  /\ i \in DOMAIN rd.requests
  /\ rd.requests[i].success = outcome.success
  /\ rd.requests[i].backend = outcome.backend
  /\ rd.requests[i].retries = outcome.retries

\* C21: the record makeRequest stores agrees with the outcome it returns and
\* the parallel arrays stay aligned.  In every state a VU's requests,
\* responseTimes, backends, retries and timestamps have one length and
\* backends[i], retries[i] are those of requests[i]; the i-th call that
\* returns appends the i-th record, whose success, backend and retries are
\* those of the outcome it returns; and no step changes or drops a record
\* that was stored before.
C21_RecordAgreesWithOutcome ==
  /\ [](\A w \in Workers :
          /\ Aligned(rawData[w])
          /\ Returned(w) => Agrees(rawData[w], returned[w], result[w]))
  /\ [][\A w \in Workers :
          /\ returned'[w] = returned[w] + 1 =>
               /\ Len(rawData'[w].requests) = Len(rawData[w].requests) + 1
               /\ Agrees(rawData'[w], returned'[w], result'[w])
          /\ \A i \in DOMAIN rawData[w].requests :
               /\ i \in DOMAIN rawData'[w].requests
               /\ rawData'[w].requests[i] = rawData[w].requests[i]]_vars

C21_Witness ==
  \E w \in Workers :
    /\ Returned(w)
    /\ Len(rawData[w].requests) = 2
    /\ ~rawData[w].requests[1].success
    /\ rawData[w].retries[1] = MAX_RETRIES
    /\ rawData[w].backends[1] = "error"
    /\ result[w].success
    /\ result[w].retries = 1
    /\ rawData[w].retries[2] = 1
    /\ rawData[w].backends[2] = result[w].backend

====
